---- MODULE Spec2Model ----
(***************************************************************************)
(* Model of the coinharness transaction funder (CreateTransaction/fundTx,  *)
(* wallet.go), of the RPC connection manager, and of the ConsoleNode /     *)
(* ConsoleWallet components that own one: Start, Stop, Dispose, the        *)
(* operations forwarded to the RPC client, and ConsoleWallet.Sync.         *)
(*                                                                         *)
(* Amounts are int64 atoms in the source; every amount of the model stays  *)
(* far below 2^31, so no arithmetic of the model wraps.                    *)
(***************************************************************************)
EXTENDS Integers, Naturals, Sequences, FiniteSets, TLC

VARIABLES
    \* ---- inputs of one CreateTransaction call ----
    unspent,        \* what wallet.ListUnspent() returns: Seq of Unspent
    args,           \* CreateTransactionArgs
    failMode,       \* which collaborator fails in this call, if any
    \* ---- locals of CreateTransaction / fundTx ----
    pc,             \* "start" | "fund" | "done"
    idx,            \* position of the range loop over unspent (1-based)
    tx,             \* the MessageTx under construction
    picked,         \* positions in unspent of the outputs appended as inputs
    amt,            \* outputAmt.AtomsValue
    amtSelected,    \* amtSelected.AtomsValue
    reqFee,         \* reqFee.AtomsValue of the last fee computation
    changeVal,      \* changeVal.AtomsValue, once computed
    \* ---- what CreateTransaction returned ----
    ret,            \* the returned *MessageTx (NilTx for nil)
    err,            \* the returned error (NoErr for nil)
    \* ---- collaborator call counters ----
    addrCalls,      \* calls of wallet.GetNewAddress
    scriptCalls,    \* calls of PayToAddrScript
    \* ---- RPCConnection ----
    MaxConnRetries, \* RPCConnection.MaxConnRetries
    isConnected,    \* connection state: TRUE = Connected
    rpcClient,      \* the stored client handle (NoClient when none)
    connPc,         \* "idle" | "connecting"
    failsLeft,      \* failures the client factory still produces
    connFails,      \* N of the Connect call in progress / last finished
    attempts,       \* factory invocations of the current Connect call
    lastErr,        \* last error of the client factory
    connErr,        \* outcome of the last finished Connect call
    lastCall,       \* the operation of the connection that returned last
    handles,        \* client handles created so far
    liveHandles,    \* client handles created and not yet released
    lastQuery,      \* what the last IsConnected() call returned
    \* ---- ConsoleNode / ConsoleWallet ----
    kind,           \* "node" (ConsoleNode) | "wallet" (ConsoleWallet)
    nodePc,         \* position inside Start / Stop / Dispose, or "idle"
    running,        \* externalProcess.IsRunning()
    certFile,       \* the rpc.cert file exists
    keyFile,        \* the rpc.key file exists
    launches,       \* calls of externalProcess.Launch
    nodeCall,       \* the call in progress, or the last event
    nodeOutcome,    \* how that call ended
    usedHandle,     \* the handle the last facade operation worked on
    \* ---- ConsoleWallet.Sync ----
    syncPc,         \* position inside Sync
    desiredHeight,  \* the argument of Sync
    height,         \* the synced height of the wallet
    observed,       \* what the last loop test of Sync read
    syncRet         \* what Sync returned

fundVars == <<unspent, args, failMode, pc, idx, tx, picked, amt, amtSelected, reqFee,
              changeVal, ret, err, addrCalls, scriptCalls>>
connVars == <<MaxConnRetries, isConnected, rpcClient, connPc, failsLeft,
              connFails, attempts, lastErr, connErr, lastCall, handles,
              liveHandles, lastQuery>>
nodeVars == <<kind, nodePc, running, certFile, keyFile, launches, nodeCall,
              nodeOutcome, usedHandle>>
syncVars == <<syncPc, desiredHeight, height, observed, syncRet>>
vars == <<unspent, args, failMode, pc, idx, tx, picked, amt, amtSelected, reqFee,
          changeVal, ret, err, addrCalls, scriptCalls,
          MaxConnRetries, isConnected, rpcClient, connPc, failsLeft,
          connFails, attempts, lastErr, connErr, lastCall, handles,
          liveHandles, lastQuery,
          kind, nodePc, running, certFile, keyFile, launches, nodeCall,
          nodeOutcome, usedHandle,
          syncPc, desiredHeight, height, observed, syncRet>>

(***************************************************************************)
(* Bounds                                                                  *)
(***************************************************************************)
MaxUnspent == 3
MaxOutputs == 2
MaxRetries == 3
MaxHandles == 3
MaxLaunches == 3
MaxHeight == 4

NilTx == [nil |-> TRUE]
NoClient == 0
NoErr == "ok"
NotComputed == [computed |-> FALSE, value |-> 0]
Computed(v) == [computed |-> TRUE, value |-> v]

ErrListUnspent == "ListUnspent failed"
ErrGetNewAddress == "GetNewAddress failed"
ErrPayToAddrScript == "PayToAddrScript failed"
ErrNotEnoughFunds == "not enough funds for coin selection"

DefaultAccountName == "default"
OtherAccountName == "other"

\* The unspent outputs a wallet may list.
UtxoPool ==
    { [Amount |-> 150000, Account |-> DefaultAccountName, Spendable |-> TRUE,  Tree |-> 0],
      [Amount |-> 60000,  Account |-> DefaultAccountName, Spendable |-> TRUE,  Tree |-> 1],
      [Amount |-> 60000,  Account |-> OtherAccountName,   Spendable |-> TRUE,  Tree |-> 0],
      [Amount |-> 50000,  Account |-> DefaultAccountName, Spendable |-> FALSE, Tree |-> 0],
      [Amount |-> 50000,  Account |-> DefaultAccountName, Spendable |-> TRUE,  Tree |-> 0],
      [Amount |-> 4160,   Account |-> DefaultAccountName, Spendable |-> TRUE,  Tree |-> 1] }

OutValues == {50000, 100000}
FeeRates == {0, 10}
FailModes == {"none", "ListUnspent", "GetNewAddress", "PayToAddrScript"}

\* TxSerializeSize is supplied by the caller; a serializer is modelled by the
\* bytes it spends on the fixed part, on each input and on each output.
Serializers == { [base |-> 200, in |-> 0,  out |-> 0],
                 [base |-> 10,  in |-> 40, out |-> 30] }

SeqsUpTo(S, lo, hi) == UNION { [1..n -> S] : n \in lo..hi }

PayeeScript == [to |-> [account |-> "payee", n |-> 0]]
DesiredOutputs ==
    { [i \in DOMAIN vs |-> [Value |-> vs[i], PkScript |-> PayeeScript]] :
        vs \in SeqsUpTo(OutValues, 1, MaxOutputs) }

(***************************************************************************)
(* Pure helpers of fundTx                                                  *)
(***************************************************************************)
RECURSIVE SumValue(_)
SumValue(outs) ==
    IF outs = <<>> THEN 0 ELSE outs[1].Value + SumValue(Tail(outs))

spendSize == 1 + 73 + 1 + 33

TxSerializeSize(t) ==
    args.Serializer.base + args.Serializer.in * Len(t.TxIn)
                         + args.Serializer.out * Len(t.TxOut)

EligibleAnyAccount(output) == output.Spendable
Eligible(output) == output.Spendable /\ output.Account = args.Account

NewTxInNoValue(output) ==
    [PreviousOutPoint |-> [Tree |-> output.Tree], ValueIn |-> 0]
NewTxIn(output) ==
    [PreviousOutPoint |-> [Tree |-> output.Tree], ValueIn |-> output.Amount]

TxSizeOneSpend(t) == TxSerializeSize(t) + spendSize
TxSize(t) == TxSerializeSize(t) + spendSize * Len(t.TxIn)

ReqFee(t) == TxSize(t) * args.FeeRate

CoversIgnoringFee(selected, fee, target) == ~(selected < target)
CoversStrictly(selected, fee, target) == ~(selected - fee <= target)
Covers(selected, fee, target) == ~(selected - fee < target)

ChangeValNoFee(selected, fee, target) == selected - target
ChangeVal(selected, fee, target) == selected - target - fee

NeedsChangeAlways(change) == change >= 0
NeedsChange(change) == change > 0

\* tx.TxOut = append(tx.TxOut, changeOutput)
PrependChange(outs, changeOutput) == <<changeOutput>> \o outs
AppendChange(outs, changeOutput) == Append(outs, changeOutput)

GetNewAddress(account, n) == [account |-> account, n |-> n]
PayToAddrScript(addr) == [to |-> addr]

\* The (tx, err) pair CreateTransaction hands back for a fundTx outcome.
CreateTransactionReturnPartial(t, e) == [tx |-> t, err |-> e]
CreateTransactionReturn(t, e) ==
    IF e # NoErr THEN [tx |-> NilTx, err |-> e] ELSE [tx |-> t, err |-> NoErr]

\* The error fundTx returns when a collaborator of the change output fails.
ChangeErrorMasked(mode) == ErrNotEnoughFunds
ChangeError(mode) ==
    IF mode = "GetNewAddress" THEN ErrGetNewAddress ELSE ErrPayToAddrScript

(***************************************************************************)
(* CreateTransaction / fundTx                                              *)
(***************************************************************************)
EmptyTx == [TxIn |-> <<>>, TxOut |-> <<>>]

InitFundVars ==
    /\ unspent \in SeqsUpTo(UtxoPool, 0, MaxUnspent)
    /\ args \in [Outputs : DesiredOutputs,
                 FeeRate : FeeRates,
                 Change : BOOLEAN,
                 Serializer : Serializers,
                 Account : {DefaultAccountName, OtherAccountName}]
    /\ failMode \in FailModes
    /\ pc = "start"
    /\ idx = 0
    /\ tx = EmptyTx
    /\ picked = <<>>
    /\ amt = 0
    /\ amtSelected = 0
    /\ reqFee = 0
    /\ changeVal = NotComputed
    /\ ret = NilTx
    /\ err = NoErr
    /\ addrCalls = 0
    /\ scriptCalls = 0

\* wallet.go 155-170: list the unspent outputs, seed the outputs, tally.
CreateTransaction ==
    /\ pc = "start"
    /\ IF failMode = "ListUnspent"
       THEN /\ pc' = "done"
            /\ ret' = NilTx
            /\ err' = ErrListUnspent
            /\ UNCHANGED <<tx, amt, idx>>
       ELSE /\ pc' = "fund"
            /\ tx' = [TxIn |-> <<>>, TxOut |-> args.Outputs]
            /\ amt' = SumValue(args.Outputs)
            /\ idx' = 1
            /\ UNCHANGED <<ret, err>>
    /\ UNCHANGED <<unspent, args, failMode, picked, amtSelected, reqFee,
                   changeVal, addrCalls, scriptCalls>>
    /\ UNCHANGED <<connVars, nodeVars, syncVars>>

\* wallet.go 216-224: an immature, locked or foreign output is skipped.
FundTxSkip ==
    /\ pc = "fund"
    /\ idx <= Len(unspent)
    /\ ~Eligible(unspent[idx])
    /\ idx' = idx + 1
    /\ UNCHANGED <<unspent, args, failMode, pc, tx, picked, amt, amtSelected,
                   reqFee, changeVal, ret, err, addrCalls, scriptCalls>>
    /\ UNCHANGED <<connVars, nodeVars, syncVars>>

\* wallet.go 226-249: select the output; the fee is not covered yet.
FundTxAccumulate ==
    /\ pc = "fund"
    /\ idx <= Len(unspent)
    /\ Eligible(unspent[idx])
    /\ LET output == unspent[idx]
           sel == amtSelected + output.Amount
           t == [tx EXCEPT !.TxIn = Append(@, NewTxIn(output))]
           fee == ReqFee(t)
       IN /\ ~Covers(sel, fee, amt)
          /\ amtSelected' = sel
          /\ tx' = t
          /\ picked' = Append(picked, idx)
          /\ reqFee' = fee
          /\ idx' = idx + 1
    /\ UNCHANGED <<unspent, args, failMode, pc, amt, changeVal, ret, err,
                   addrCalls, scriptCalls>>
    /\ UNCHANGED <<connVars, nodeVars, syncVars>>

\* wallet.go 226-269 and 181-185: select the output; the amount selected now
\* covers target and fee, so the change output is built and fundTx returns.
FundTxComplete ==
    /\ pc = "fund"
    /\ idx <= Len(unspent)
    /\ Eligible(unspent[idx])
    /\ LET output == unspent[idx]
           sel == amtSelected + output.Amount
           t == [tx EXCEPT !.TxIn = Append(@, NewTxIn(output))]
           fee == ReqFee(t)
           change == ChangeVal(sel, fee, amt)
       IN /\ Covers(sel, fee, amt)
          /\ amtSelected' = sel
          /\ picked' = Append(picked, idx)
          /\ reqFee' = fee
          /\ changeVal' = Computed(change)
          /\ IF ~NeedsChange(change)
             THEN /\ tx' = t
                  /\ ret' = CreateTransactionReturn(t, NoErr).tx
                  /\ err' = CreateTransactionReturn(t, NoErr).err
                  /\ UNCHANGED <<addrCalls, scriptCalls>>
             ELSE IF failMode = "GetNewAddress"
             THEN /\ addrCalls' = addrCalls + 1
                  /\ tx' = t
                  /\ ret' = CreateTransactionReturn(t, ChangeError(failMode)).tx
                  /\ err' = CreateTransactionReturn(t, ChangeError(failMode)).err
                  /\ UNCHANGED scriptCalls
             ELSE IF failMode = "PayToAddrScript"
             THEN /\ addrCalls' = addrCalls + 1
                  /\ scriptCalls' = scriptCalls + 1
                  /\ tx' = t
                  /\ ret' = CreateTransactionReturn(t, ChangeError(failMode)).tx
                  /\ err' = CreateTransactionReturn(t, ChangeError(failMode)).err
             ELSE LET addr == GetNewAddress(args.Account, addrCalls + 1)
                      changeOutput == [Value |-> change,
                                       PkScript |-> PayToAddrScript(addr)]
                      t2 == [t EXCEPT !.TxOut = AppendChange(@, changeOutput)]
                  IN /\ addrCalls' = addrCalls + 1
                     /\ scriptCalls' = scriptCalls + 1
                     /\ tx' = t2
                     /\ ret' = CreateTransactionReturn(t2, NoErr).tx
                     /\ err' = CreateTransactionReturn(t2, NoErr).err
          /\ pc' = "done"
    /\ UNCHANGED <<unspent, args, failMode, amt, idx>>
    /\ UNCHANGED <<connVars, nodeVars, syncVars>>

\* wallet.go 272-274 and 181-183: the list is exhausted.
FundTxExhausted ==
    /\ pc = "fund"
    /\ idx > Len(unspent)
    /\ pc' = "done"
    /\ ret' = CreateTransactionReturn(tx, ErrNotEnoughFunds).tx
    /\ err' = CreateTransactionReturn(tx, ErrNotEnoughFunds).err
    /\ UNCHANGED <<unspent, args, failMode, idx, tx, picked, amt, amtSelected,
                   reqFee, changeVal, addrCalls, scriptCalls>>
    /\ UNCHANGED <<connVars, nodeVars, syncVars>>

(***************************************************************************)
(* RPCConnection: Connect with bounded retry, Disconnect                   *)
(***************************************************************************)
NodeMaxConnRetries == 20

NoConnErr == [kind |-> "none", cause |-> NoErr]
ErrAlreadyConnected == [kind |-> "InvalidState", cause |-> NoErr]
ErrFactory == "client factory failed"

RetryChoices == (0..MaxRetries) \cup {NodeMaxConnRetries}
FailChoices == (0..(MaxRetries + 1)) \cup {NodeMaxConnRetries, NodeMaxConnRetries + 1}

ConnectionEstablishmentFailure(cause) ==
    [kind |-> "ConnectionEstablishmentFailure", cause |-> cause]

\* Factory invocations one Connect call may make: the first attempt and
\* MaxConnRetries retries.
MaxAttemptsNoRetry(retries) == retries
MaxAttempts(retries) == retries + 1

IsConnectedStale == handles > 0
IsConnected == isConnected

\* Connect's test for the caller error of connecting twice.
AlreadyConnectedNever == FALSE
AlreadyConnected == isConnected

InitConnVars ==
    /\ isConnected = FALSE
    /\ rpcClient = NoClient
    /\ connPc = "idle"
    /\ failsLeft = 0
    /\ connFails = 0
    /\ attempts = 0
    /\ lastErr = NoErr
    /\ connErr = NoConnErr
    /\ lastCall = "none"
    /\ handles = 0
    /\ liveHandles = {}
    /\ lastQuery = "none"

\* What a call of Connect does to the connection before its first attempt,
\* with a factory that fails n times and then succeeds.
ConnectInvoke(n) ==
    /\ connPc = "idle"
    /\ IF AlreadyConnected
       THEN /\ connErr' = ErrAlreadyConnected
            /\ lastCall' = "Connect"
            /\ UNCHANGED <<connPc, failsLeft, connFails, attempts, lastErr>>
       ELSE /\ connPc' = "connecting"
            /\ failsLeft' = n
            /\ connFails' = n
            /\ attempts' = 0
            /\ lastErr' = NoErr
            /\ connErr' = NoConnErr
            /\ UNCHANGED lastCall
    /\ UNCHANGED <<MaxConnRetries, isConnected, rpcClient, handles,
                   liveHandles, lastQuery>>

\* Connect is called with a factory that fails n times and then succeeds.
ConnectCall(n) ==
    /\ handles < MaxHandles
    /\ ConnectInvoke(n)
    /\ UNCHANGED <<fundVars, nodeVars, syncVars>>

\* One invocation of the client factory that fails; the call gives up when
\* the retries are exhausted.
ConnectAttemptFails ==
    /\ connPc = "connecting"
    /\ attempts < MaxAttempts(MaxConnRetries)
    /\ failsLeft > 0
    /\ failsLeft' = failsLeft - 1
    /\ attempts' = attempts + 1
    /\ lastErr' = ErrFactory
    /\ IF attempts + 1 >= MaxAttempts(MaxConnRetries)
       THEN /\ connPc' = "idle"
            /\ connErr' = ConnectionEstablishmentFailure(ErrFactory)
            /\ lastCall' = "Connect"
       ELSE UNCHANGED <<connPc, connErr, lastCall>>
    /\ UNCHANGED <<MaxConnRetries, isConnected, rpcClient, connFails, handles,
                   liveHandles, lastQuery>>
    /\ UNCHANGED <<fundVars, nodeVars, syncVars>>

\* One invocation of the client factory that succeeds: the handle is stored.
ConnectAttemptSucceeds ==
    /\ connPc = "connecting"
    /\ attempts < MaxAttempts(MaxConnRetries)
    /\ failsLeft = 0
    /\ attempts' = attempts + 1
    /\ handles' = handles + 1
    /\ liveHandles' = liveHandles \cup {handles + 1}
    /\ rpcClient' = handles + 1
    /\ isConnected' = TRUE
    /\ connPc' = "idle"
    /\ connErr' = NoConnErr
    /\ lastCall' = "Connect"
    /\ UNCHANGED <<MaxConnRetries, failsLeft, connFails, lastErr, lastQuery>>
    /\ UNCHANGED <<fundVars, nodeVars, syncVars>>

\* What Disconnect does to a connected connection: the handle is released.
DisconnectRelease ==
    /\ isConnected' = FALSE
    /\ rpcClient' = NoClient
    /\ liveHandles' = liveHandles \ {rpcClient}
    /\ lastCall' = "Disconnect"
    /\ UNCHANGED <<MaxConnRetries, connPc, failsLeft, connFails, attempts,
                   lastErr, connErr, handles, lastQuery>>

Disconnect ==
    /\ connPc = "idle"
    /\ isConnected
    /\ DisconnectRelease
    /\ UNCHANGED <<fundVars, nodeVars, syncVars>>

\* IsConnected() is called: a query of the state.
IsConnectedCall ==
    /\ connPc = "idle"
    /\ lastQuery' = IF IsConnected THEN "true" ELSE "false"
    /\ UNCHANGED <<MaxConnRetries, isConnected, rpcClient, connPc, failsLeft,
                   connFails, attempts, lastErr, connErr, lastCall, handles,
                   liveHandles>>
    /\ UNCHANGED <<fundVars, nodeVars, syncVars>>

\* Connection(): the live handle; calling it while disconnected fails loudly.
ConnectionSilent == [ok |-> TRUE, handle |-> rpcClient]
Connection ==
    IF isConnected THEN [ok |-> TRUE, handle |-> rpcClient]
    ELSE [ok |-> FALSE, handle |-> NoClient]

(***************************************************************************)
(* ConsoleNode / ConsoleWallet: Start, Stop, Dispose and the operations    *)
(* forwarded to the RPC client.  pin.ReportTestSetupMalfunction panics: the *)
(* call it is made from is abandoned where it stands.                      *)
(***************************************************************************)
Kinds == {"node", "wallet"}

NodeOps == {"WalletLock", "WalletInfo", "WalletUnlock"}
WalletOps == {"GetNewAddress", "GetBalance", "SyncedHeight"}
FacadeOps(k) == IF k = "node" THEN NodeOps ELSE WalletOps

IsRunningNever == FALSE
IsRunning == running

\* pin.DeleteFile: what is left of a file.
DeleteFileKeeps(exists) == exists
DeleteFile(exists) == FALSE

InitNodeVars ==
    /\ kind \in Kinds
    /\ nodePc = "idle"
    /\ running = FALSE
    /\ certFile = FALSE
    /\ keyFile = FALSE
    /\ launches = 0
    /\ nodeCall = "none"
    /\ nodeOutcome = "none"
    /\ usedHandle = NoClient

\* Start, up to the launch of the external process.
StartBegin ==
    /\ nodePc = "idle"
    /\ launches < MaxLaunches
    /\ nodeCall' = "Start"
    /\ IF IsRunning
       THEN /\ nodeOutcome' = "malfunction"
            /\ UNCHANGED <<nodePc, running, launches>>
       ELSE /\ running' = TRUE
            /\ launches' = launches + 1
            /\ nodePc' = "start_wait"
            /\ nodeOutcome' = "pending"
    /\ UNCHANGED <<kind, certFile, keyFile, usedHandle>>
    /\ UNCHANGED <<fundVars, connVars, syncVars>>

\* pin.WaitForFile finds the cert file.
StartWaitForFile ==
    /\ nodePc = "start_wait"
    /\ certFile
    /\ nodePc' = "start_connect"
    /\ UNCHANGED <<kind, running, certFile, keyFile, launches, nodeCall,
                   nodeOutcome, usedHandle>>
    /\ UNCHANGED <<fundVars, connVars, syncVars>>

\* pin.WaitForFile gives up: the cert file did not appear in time.
StartWaitTimeout ==
    /\ nodePc = "start_wait"
    /\ ~certFile
    /\ nodePc' = "idle"
    /\ nodeOutcome' = "malfunction"
    /\ UNCHANGED <<kind, running, certFile, keyFile, launches, nodeCall,
                   usedHandle>>
    /\ UNCHANGED <<fundVars, connVars, syncVars>>

\* rPCClient.Connect(cfg, nil); what Connect reports is not looked at.
StartConnect(n) ==
    /\ nodePc = "start_connect"
    /\ ConnectInvoke(n)
    /\ nodePc' = "start_connecting"
    /\ UNCHANGED <<kind, running, certFile, keyFile, launches, nodeCall,
                   nodeOutcome, usedHandle>>
    /\ UNCHANGED <<fundVars, syncVars>>

\* Connect is back: "RPC client connected." is printed and Start returns.
StartReturn ==
    /\ nodePc = "start_connecting"
    /\ connPc = "idle"
    /\ nodePc' = "idle"
    /\ nodeOutcome' = "ok"
    /\ UNCHANGED <<kind, running, certFile, keyFile, launches, nodeCall,
                   usedHandle>>
    /\ UNCHANGED <<fundVars, connVars, syncVars>>

\* Stop, up to the disconnection of the RPC client.
StopDisconnect(call) ==
    /\ nodeCall' = call
    /\ IF ~IsRunning
       THEN /\ nodeOutcome' = "malfunction"
            /\ UNCHANGED nodePc
            /\ UNCHANGED connVars
       ELSE /\ nodeOutcome' = "pending"
            /\ nodePc' = "stop_process"
            /\ IF IsConnected THEN DisconnectRelease ELSE UNCHANGED connVars
    /\ UNCHANGED <<kind, running, certFile, keyFile, launches, usedHandle>>
    /\ UNCHANGED <<fundVars, syncVars>>

StopBegin ==
    /\ nodePc = "idle"
    /\ StopDisconnect("Stop")

\* Dispose: Stop if the process is running, nil otherwise.
DisposeBegin ==
    /\ nodePc = "idle"
    /\ IF IsRunning
       THEN StopDisconnect("Dispose")
       ELSE /\ nodeCall' = "Dispose"
            /\ nodeOutcome' = "ok"
            /\ UNCHANGED <<kind, nodePc, running, certFile, keyFile, launches,
                           usedHandle>>
            /\ UNCHANGED <<fundVars, connVars, syncVars>>

\* externalProcess.Stop() succeeds.
StopProcess ==
    /\ nodePc = "stop_process"
    /\ running' = FALSE
    /\ nodePc' = "stop_delete"
    /\ UNCHANGED <<kind, certFile, keyFile, launches, nodeCall, nodeOutcome,
                   usedHandle>>
    /\ UNCHANGED <<fundVars, connVars, syncVars>>

\* externalProcess.Stop() returns an error: pin.CheckTestSetupMalfunction
\* panics; the process may or may not be gone.
StopProcessFails ==
    /\ nodePc = "stop_process"
    /\ running' \in BOOLEAN
    /\ nodePc' = "idle"
    /\ nodeOutcome' = "malfunction"
    /\ UNCHANGED <<kind, certFile, keyFile, launches, nodeCall, usedHandle>>
    /\ UNCHANGED <<fundVars, connVars, syncVars>>

\* The cert and key files are deleted and Stop returns.
StopDeleteFiles ==
    /\ nodePc = "stop_delete"
    /\ certFile' = DeleteFile(certFile)
    /\ keyFile' = DeleteFile(keyFile)
    /\ nodePc' = "idle"
    /\ nodeOutcome' = "ok"
    /\ UNCHANGED <<kind, running, launches, nodeCall, usedHandle>>
    /\ UNCHANGED <<fundVars, connVars, syncVars>>

\* An operation forwarded to rPCClient.Connection().
FacadeCall(op) ==
    /\ nodePc = "idle"
    /\ nodeCall' = op
    /\ IF Connection.ok
       THEN /\ usedHandle' = Connection.handle
            /\ nodeOutcome' = "ok"
       ELSE /\ usedHandle' = NoClient
            /\ nodeOutcome' = "malfunction"
    /\ UNCHANGED <<kind, nodePc, running, certFile, keyFile, launches>>
    /\ UNCHANGED <<fundVars, connVars, syncVars>>

\* The running process writes rpc.cert and rpc.key once its RPC server is up.
ProcessWritesCert ==
    /\ running
    /\ ~certFile
    /\ certFile' = TRUE
    /\ keyFile' = TRUE
    /\ IF nodePc = "idle"
       THEN nodeCall' = "cert" /\ nodeOutcome' = "none"
       ELSE UNCHANGED <<nodeCall, nodeOutcome>>
    /\ UNCHANGED <<kind, nodePc, running, launches, usedHandle>>
    /\ UNCHANGED <<fundVars, connVars, syncVars>>

\* The external process exits on its own, between two calls.
ProcessExits ==
    /\ nodePc = "idle"
    /\ running
    /\ running' = FALSE
    /\ nodeCall' = "exit"
    /\ nodeOutcome' = "none"
    /\ UNCHANGED <<kind, nodePc, certFile, keyFile, launches, usedHandle>>
    /\ UNCHANGED <<fundVars, connVars, syncVars>>

(***************************************************************************)
(* ConsoleWallet.Sync.  The synced height of the wallet is what            *)
(* GetBestBlock reports; it follows the chain and does not decrease.       *)
(***************************************************************************)
NotRead == 0 - 1

\* The loop test of Sync: wallet.SyncedHeight() < desiredHeight.
KeepsWaitingOffByOne(h, desired) == h + 1 < desired
KeepsWaiting(h, desired) == h < desired

InitSyncVars ==
    /\ desiredHeight \in 0..MaxHeight
    /\ height \in 0..MaxHeight
    /\ syncPc = "test"
    /\ observed = NotRead
    /\ syncRet = NotRead

\* for wallet.SyncedHeight() < desiredHeight
SyncTest ==
    /\ syncPc = "test"
    /\ observed' = height
    /\ syncPc' = IF KeepsWaiting(height, desiredHeight) THEN "sleep" ELSE "return"
    /\ UNCHANGED <<desiredHeight, height, syncRet>>
    /\ UNCHANGED <<fundVars, connVars, nodeVars>>

\* pin.Sleep(1000); count := wallet.SyncedHeight(); the count is printed.
SyncSleep ==
    /\ syncPc = "sleep"
    /\ syncPc' = "test"
    /\ UNCHANGED <<desiredHeight, height, observed, syncRet>>
    /\ UNCHANGED <<fundVars, connVars, nodeVars>>

\* return wallet.SyncedHeight()
SyncReturn ==
    /\ syncPc = "return"
    /\ syncRet' = height
    /\ syncPc' = "done"
    /\ UNCHANGED <<desiredHeight, height, observed>>
    /\ UNCHANGED <<fundVars, connVars, nodeVars>>

\* A call of SyncedHeight fails (no connection, or GetBestBlock returns an
\* error): pin.CheckTestSetupMalfunction panics and Sync is abandoned.
SyncedHeightFails ==
    /\ syncPc \in {"test", "sleep", "return"}
    /\ syncPc' = "panicked"
    /\ UNCHANGED <<desiredHeight, height, observed, syncRet>>
    /\ UNCHANGED <<fundVars, connVars, nodeVars>>

\* The wallet syncs one more block.
HeightAdvances ==
    /\ height < MaxHeight
    /\ height' = height + 1
    /\ UNCHANGED <<syncPc, desiredHeight, observed, syncRet>>
    /\ UNCHANGED <<fundVars, connVars, nodeVars>>

(***************************************************************************)
(* Rest states of the parts a specification does not exercise              *)
(***************************************************************************)
IdleFundVars ==
    /\ unspent = <<>>
    /\ args = [Outputs |-> <<>>, FeeRate |-> 0, Change |-> FALSE,
               Serializer |-> [base |-> 0, in |-> 0, out |-> 0],
               Account |-> DefaultAccountName]
    /\ failMode = "none"
    /\ pc = "idle"
    /\ idx = 0
    /\ tx = EmptyTx
    /\ picked = <<>>
    /\ amt = 0
    /\ amtSelected = 0
    /\ reqFee = 0
    /\ changeVal = NotComputed
    /\ ret = NilTx
    /\ err = NoErr
    /\ addrCalls = 0
    /\ scriptCalls = 0

IdleNodeVars ==
    /\ kind = "node"
    /\ nodePc = "idle"
    /\ running = FALSE
    /\ certFile = FALSE
    /\ keyFile = FALSE
    /\ launches = 0
    /\ nodeCall = "none"
    /\ nodeOutcome = "none"
    /\ usedHandle = NoClient

IdleSyncVars ==
    /\ syncPc = "idle"
    /\ desiredHeight = 0
    /\ height = 0
    /\ observed = 0
    /\ syncRet = 0

(***************************************************************************)
(* Specifications                                                          *)
(***************************************************************************)
InitFund ==
    /\ InitFundVars
    /\ MaxConnRetries = NodeMaxConnRetries
    /\ InitConnVars
    /\ IdleNodeVars
    /\ IdleSyncVars

NextFund ==
    \/ CreateTransaction
    \/ FundTxSkip
    \/ FundTxAccumulate
    \/ FundTxComplete
    \/ FundTxExhausted

SpecFund == InitFund /\ [][NextFund]_vars

InitConn ==
    /\ MaxConnRetries \in RetryChoices
    /\ InitConnVars
    /\ IdleFundVars
    /\ IdleNodeVars
    /\ IdleSyncVars

NextConn ==
    \/ \E n \in FailChoices : ConnectCall(n)
    \/ ConnectAttemptFails
    \/ ConnectAttemptSucceeds
    \/ Disconnect
    \/ IsConnectedCall

SpecConn == InitConn /\ [][NextConn]_vars

InitNode ==
    /\ InitNodeVars
    /\ MaxConnRetries = NodeMaxConnRetries
    /\ InitConnVars
    /\ IdleFundVars
    /\ IdleSyncVars

NextNode ==
    \/ StartBegin
    \/ StartWaitForFile
    \/ StartWaitTimeout
    \/ \E n \in FailChoices : StartConnect(n)
    \/ ConnectAttemptFails
    \/ ConnectAttemptSucceeds
    \/ StartReturn
    \/ StopBegin
    \/ DisposeBegin
    \/ StopProcess
    \/ StopProcessFails
    \/ StopDeleteFiles
    \/ \E op \in FacadeOps(kind) : FacadeCall(op)
    \/ ProcessWritesCert
    \/ ProcessExits

SpecNode == InitNode /\ [][NextNode]_vars

InitSync ==
    /\ InitSyncVars
    /\ MaxConnRetries = NodeMaxConnRetries
    /\ InitConnVars
    /\ IdleFundVars
    /\ IdleNodeVars

NextSync ==
    \/ SyncTest
    \/ SyncSleep
    \/ SyncReturn
    \/ SyncedHeightFails
    \/ HeightAdvances

\* The thread inside Sync keeps running; nothing forces the wallet to sync.
SpecSync ==
    /\ InitSync
    /\ [][NextSync]_vars
    /\ WF_vars(SyncTest)
    /\ WF_vars(SyncSleep)
    /\ WF_vars(SyncReturn)

(***************************************************************************)
(* Vocabulary of the properties.  It is stated on the inputs of the call   *)
(* and on what the call returned, independently of the operators the       *)
(* actions are built from.                                                 *)
(***************************************************************************)
Done == pc = "done"
Succeeded == pc = "done" /\ err = NoErr /\ ret # NilTx
ListObtained == failMode # "ListUnspent"

Target == SumValue(args.Outputs)

RECURSIVE SumValueIn(_)
SumValueIn(ins) ==
    IF ins = <<>> THEN 0 ELSE ins[1].ValueIn + SumValueIn(Tail(ins))

Matches(u) == u.Spendable = TRUE /\ u.Account = args.Account

\* Positions of the eligible outputs among the first k outputs of the list.
RECURSIVE EligiblePositions(_)
EligiblePositions(k) ==
    IF k = 0 THEN <<>>
    ELSE IF Matches(unspent[k]) THEN Append(EligiblePositions(k - 1), k)
         ELSE EligiblePositions(k - 1)

RECURSIVE SumAmountAt(_)
SumAmountAt(ps) ==
    IF ps = <<>> THEN 0 ELSE unspent[ps[1]].Amount + SumAmountAt(Tail(ps))

InputsAt(ps) ==
    [j \in DOMAIN ps |-> [PreviousOutPoint |-> [Tree |-> unspent[ps[j]].Tree],
                          ValueIn |-> unspent[ps[j]].Amount]]

\* Fee of the skeleton holding the eligible outputs of the first k outputs
\* as inputs and the desired outputs as outputs.
FeeOfPrefix(k) ==
    LET n == Len(EligiblePositions(k))
    IN (TxSerializeSize([TxIn |-> InputsAt(EligiblePositions(k)),
                         TxOut |-> args.Outputs]) + 108 * n) * args.FeeRate

SelectedOfPrefix(k) == SumAmountAt(EligiblePositions(k))

PrefixCovers(k) ==
    /\ k \in 1..Len(unspent)
    /\ SelectedOfPrefix(k) - FeeOfPrefix(k) >= Target

SomePrefixCovers == \E k \in 1..Len(unspent) : PrefixCovers(k)

ShortestCover ==
    CHOOSE k \in 1..Len(unspent) :
        PrefixCovers(k) /\ \A j \in 1..(k - 1) : ~PrefixCovers(j)

ChangeOfShortestCover ==
    SelectedOfPrefix(ShortestCover) - Target - FeeOfPrefix(ShortestCover)

HasChangeOutput(t) ==
    /\ Len(t.TxOut) = Len(args.Outputs) + 1
    /\ SubSeq(t.TxOut, 1, Len(args.Outputs)) = args.Outputs

(***************************************************************************)
(* C1: a transaction CreateTransaction returns is never underfunded: the   *)
(* values of its inputs sum to at least the values of all its outputs,     *)
(* change included, plus the fee required when selection stopped.          *)
(***************************************************************************)
C1_NeverUnderfunded ==
    Succeeded =>
        SumValueIn(ret.TxIn) >= SumValue(ret.TxOut) + reqFee

C1_Witness ==
    /\ Succeeded
    /\ Len(ret.TxIn) >= 2
    /\ reqFee > 0
    /\ HasChangeOutput(ret)

(***************************************************************************)
(* C2: every input comes from an output that is spendable and belongs to   *)
(* the requested account, and only such outputs count in the selected      *)
(* amount.  Of two outputs of 60000 whose second belongs to another        *)
(* account, a target of 50000 is funded with the first only.               *)
(***************************************************************************)
C2_Scenario ==
    /\ Len(unspent) = 2
    /\ unspent[1].Amount = 60000 /\ Matches(unspent[1])
    /\ unspent[2].Amount = 60000 /\ unspent[2].Spendable
    /\ unspent[2].Account # args.Account
    /\ Target = 50000
    /\ failMode = "none"

C2_OnlyEligibleSelected ==
    /\ \A j \in DOMAIN picked : /\ unspent[picked[j]].Spendable
                                /\ unspent[picked[j]].Account = args.Account
    /\ Len(tx.TxIn) = Len(picked)
    /\ amtSelected = SumAmountAt(picked)
    /\ (Done /\ C2_Scenario) => (Succeeded /\ picked = <<1>>)

C2_Witness ==
    /\ Succeeded
    /\ Len(picked) >= 1
    /\ \E i \in 1..Len(unspent) :
          /\ i < picked[Len(picked)]
          /\ unspent[i].Spendable
          /\ unspent[i].Account # args.Account
    /\ \E i \in 1..Len(unspent) :
          /\ i < picked[Len(picked)]
          /\ ~unspent[i].Spendable

(***************************************************************************)
(* C3: when no prefix of the list covers target and fee, the call fails    *)
(* with the insufficient-funds error and returns no transaction.  A single *)
(* eligible output of 150000 does not fund a target of 200000.             *)
(***************************************************************************)
C3_Scenario ==
    /\ Len(unspent) = 1
    /\ unspent[1].Amount = 150000 /\ Matches(unspent[1])
    /\ Target = 200000
    /\ ListObtained

C3_InsufficientFunds ==
    /\ (Done /\ ListObtained /\ ~SomePrefixCovers) =>
           (err = ErrNotEnoughFunds /\ ret = NilTx)
    /\ (Done /\ C3_Scenario) => (err = ErrNotEnoughFunds /\ ret = NilTx)

C3_Witness ==
    /\ Done
    /\ err = ErrNotEnoughFunds
    /\ ret = NilTx
    /\ Len(tx.TxIn) >= 1

(***************************************************************************)
(* C4: when the eligible amounts sum to at least the target plus the fee   *)
(* of the skeleton holding every eligible output, and no collaborator      *)
(* fails, the call succeeds and the inputs of the result are worth at      *)
(* least its outputs.                                                      *)
(***************************************************************************)
C4_Funded ==
    /\ failMode = "none"
    /\ SelectedOfPrefix(Len(unspent)) >= Target + FeeOfPrefix(Len(unspent))

C4_SufficientFundsSucceed ==
    (Done /\ C4_Funded) =>
        /\ err = NoErr
        /\ ret # NilTx
        /\ SumValueIn(ret.TxIn) >= SumValue(ret.TxOut)

C4_Witness ==
    /\ Succeeded
    /\ failMode = "none"
    /\ SelectedOfPrefix(Len(unspent)) = Target + FeeOfPrefix(Len(unspent))
    /\ Len(ret.TxIn) >= 2
    /\ reqFee > 0

(***************************************************************************)
(* C5: on success, a change of zero adds no output (the outputs are the    *)
(* desired ones); any other change adds exactly one output, whose value is *)
(* selected - target - fee and is positive.                                *)
(***************************************************************************)
C5_ChangeOutput ==
    Succeeded =>
        LET change == SumValueIn(ret.TxIn) - Target - reqFee
        IN IF change = 0
           THEN ret.TxOut = args.Outputs
           ELSE /\ HasChangeOutput(ret)
                /\ ret.TxOut[Len(ret.TxOut)].Value = change
                /\ change > 0

C5_Witness ==
    /\ Succeeded
    /\ reqFee > 0
    /\ SumValueIn(ret.TxIn) - Target - reqFee = 0
    /\ ret.TxOut = args.Outputs

(***************************************************************************)
(* C6: selection is first-fit and keeps the order of the list: on success  *)
(* the inputs are the eligible outputs of the shortest prefix that covers  *)
(* target and fee, in list order, and the loop stopped at that prefix.     *)
(***************************************************************************)
C6_FirstFit ==
    Succeeded =>
        /\ SomePrefixCovers
        /\ picked = EligiblePositions(ShortestCover)
        /\ ret.TxIn = InputsAt(EligiblePositions(ShortestCover))
        /\ idx = ShortestCover

C6_Witness ==
    /\ Succeeded
    /\ Len(picked) >= 2
    /\ idx < Len(unspent)
    /\ Matches(unspent[Len(unspent)])
    /\ unspent[picked[1]].Amount < unspent[picked[2]].Amount
    /\ unspent[Len(unspent)].Amount > unspent[picked[2]].Amount

(***************************************************************************)
(* C7: after each input is appended the required fee is                    *)
(* (TxSerializeSize(skeleton) + 108 * inputs so far) * feeRate.  For the   *)
(* list [150000, default, spendable], target 100000, rate 10 and a         *)
(* serialized size of 200 the fee is 3080 and the result has one input and *)
(* one change output of 46920.                                             *)
(***************************************************************************)
C7_Scenario ==
    /\ Len(unspent) = 1
    /\ unspent[1].Amount = 150000
    /\ unspent[1].Account = "default" /\ unspent[1].Spendable
    /\ args.Account = "default"
    /\ Target = 100000
    /\ args.FeeRate = 10
    /\ args.Serializer = [base |-> 200, in |-> 0, out |-> 0]
    /\ failMode = "none"

C7_RequiredFee ==
    /\ Len(tx.TxIn) >= 1 =>
          reqFee = (TxSerializeSize([TxIn |-> tx.TxIn, TxOut |-> args.Outputs])
                      + 108 * Len(tx.TxIn)) * args.FeeRate
    /\ (Done /\ C7_Scenario) =>
          /\ Succeeded
          /\ reqFee = 3080
          /\ Len(ret.TxIn) = 1
          /\ HasChangeOutput(ret)
          /\ ret.TxOut[Len(ret.TxOut)].Value = 46920

C7_Witness ==
    /\ Succeeded
    /\ Len(tx.TxIn) >= 2
    /\ args.FeeRate = 10
    /\ args.Serializer.in > 0

(***************************************************************************)
(* C8: when a change output is needed and GetNewAddress or PayToAddrScript *)
(* fails, the call returns that very error and no transaction, and selects *)
(* no further output.                                                      *)
(***************************************************************************)
C8_NeedsChange == SomePrefixCovers /\ ChangeOfShortestCover > 0

C8_CollaboratorErrorVerbatim ==
    (Done /\ C8_NeedsChange) =>
        /\ failMode = "GetNewAddress" =>
              (err = ErrGetNewAddress /\ ret = NilTx
                 /\ picked = EligiblePositions(ShortestCover))
        /\ failMode = "PayToAddrScript" =>
              (err = ErrPayToAddrScript /\ ret = NilTx
                 /\ picked = EligiblePositions(ShortestCover))

C8_Witness ==
    /\ Done
    /\ err = ErrPayToAddrScript
    /\ ret = NilTx
    /\ idx < Len(unspent)
    /\ Matches(unspent[Len(unspent)])

(***************************************************************************)
(* C9: one call asks the wallet for a new address at most once, and once   *)
(* exactly when the computed change is nonzero; with a change of zero or   *)
(* with insufficient funds no address is requested.                        *)
(***************************************************************************)
C9_OneAddressIffChange ==
    /\ addrCalls <= 1
    /\ (Done /\ ListObtained) =>
          (addrCalls = 1 <=> (SomePrefixCovers /\ ChangeOfShortestCover # 0))
    /\ (Done /\ err = ErrNotEnoughFunds) => addrCalls = 0
    /\ (changeVal.computed /\ changeVal.value = 0) => addrCalls = 0

C9_Witness ==
    /\ Succeeded
    /\ addrCalls = 1
    /\ changeVal.computed
    /\ changeVal.value > 0
    /\ Len(picked) >= 2

(***************************************************************************)
(* C10: Connect on a disconnected connection whose factory fails N times   *)
(* and then succeeds ends Connected when MaxConnRetries >= N; otherwise it *)
(* ends with a connection-establishment failure, still Disconnected and    *)
(* with no client handle stored.                                           *)
(***************************************************************************)
ConnectReturned ==
    connPc = "idle" /\ lastCall = "Connect" /\ connErr # ErrAlreadyConnected

C10_ConnectBoundedRetry ==
    ConnectReturned =>
        IF MaxConnRetries >= connFails
        THEN /\ isConnected
             /\ rpcClient # NoClient
             /\ connErr = NoConnErr
        ELSE /\ ~isConnected
             /\ rpcClient = NoClient
             /\ connErr = ConnectionEstablishmentFailure(ErrFactory)

C10_Witness ==
    /\ ConnectReturned
    /\ connFails = MaxConnRetries
    /\ connFails >= 2
    /\ isConnected

C10_WitnessExhausted ==
    /\ ConnectReturned
    /\ connFails = MaxConnRetries + 1
    /\ ~isConnected

(***************************************************************************)
(* C11: over every sequence of Connect and Disconnect calls, IsConnected   *)
(* is false before any Connect, true after each successful Connect, false  *)
(* after each Disconnect and after each Connect that failed to establish   *)
(* the connection; calling IsConnected changes nothing of the connection.  *)
(***************************************************************************)
C11_StateOfQuery ==
    connPc = "idle" =>
        /\ lastCall = "none" => ~IsConnected
        /\ (lastCall = "Connect" /\ connErr = NoConnErr) => IsConnected
        /\ lastCall = "Disconnect" => ~IsConnected
        /\ (lastCall = "Connect"
              /\ connErr.kind = "ConnectionEstablishmentFailure") => ~IsConnected

C11_QueryIsPure ==
    lastQuery' # lastQuery =>
        /\ lastQuery' = (IF isConnected THEN "true" ELSE "false")
        /\ UNCHANGED <<MaxConnRetries, isConnected, rpcClient, connPc,
                       failsLeft, connFails, attempts, lastErr, connErr,
                       lastCall, handles, liveHandles>>

C11_IsConnectedTracksState == []C11_StateOfQuery /\ [][C11_QueryIsPure]_vars

C11_Witness ==
    /\ connPc = "idle"
    /\ lastCall = "Disconnect"
    /\ handles >= 2
    /\ lastQuery = "false"
    /\ ~isConnected

(***************************************************************************)
(* C12: a connection holds at most one live client handle: Connect called  *)
(* while connected is rejected as a caller error, and creates, stores or   *)
(* replaces no handle.                                                     *)
(***************************************************************************)
C12_OneLiveHandle ==
    /\ Cardinality(liveHandles) <= 1
    /\ liveHandles = (IF rpcClient = NoClient THEN {} ELSE {rpcClient})

C12_ConnectTwiceRejected ==
    (isConnected /\ connPc = "idle") =>
        /\ connPc' = "idle"
        /\ connErr' # connErr =>
              /\ connErr' = ErrAlreadyConnected
              /\ lastCall' = "Connect"
              /\ rpcClient' = rpcClient
              /\ handles' = handles
              /\ liveHandles' = liveHandles
              /\ isConnected'

C12_AtMostOneHandle == []C12_OneLiveHandle /\ [][C12_ConnectTwiceRejected]_vars

C12_Witness ==
    /\ connPc = "idle"
    /\ lastCall = "Connect"
    /\ connErr = ErrAlreadyConnected
    /\ isConnected
    /\ handles = 2
    /\ rpcClient = 2
    /\ liveHandles = {2}

(***************************************************************************)
(* C14: a change output is included only when args.Change is true; with    *)
(* Change = FALSE the outputs of the returned transaction are exactly the  *)
(* outputs the caller supplied, whatever amount is left over.              *)
(***************************************************************************)
C14_ChangeOnlyWhenRequested ==
    (Succeeded /\ ~args.Change) => ret.TxOut = args.Outputs

(***************************************************************************)
(* C15: on success the amount left as fee, inputs minus all outputs, is at *)
(* least the fee the rate dictates for the returned transaction, change    *)
(* output included: (TxSerializeSize(ret) + 108 * inputs) * feeRate.       *)
(***************************************************************************)
C15_FeeCoversReturnedTx ==
    Succeeded =>
        SumValueIn(ret.TxIn) - SumValue(ret.TxOut) >=
            (TxSerializeSize(ret) + 108 * Len(ret.TxIn)) * args.FeeRate

(***************************************************************************)
(* C19: the desired outputs stay, unmodified and in the caller's order,    *)
(* the leading outputs of the skeleton; the target is their value sum; a   *)
(* change output, if any, is the single last output.                       *)
(***************************************************************************)
RECURSIVE SumOfValues(_, _)
SumOfValues(outs, n) ==
    IF n = 0 THEN 0 ELSE outs[n].Value + SumOfValues(outs, n - 1)

C19_DesiredOutputsKept ==
    (pc \in {"fund", "done"} /\ ListObtained) =>
        /\ Len(tx.TxOut) >= Len(args.Outputs)
        /\ \A i \in 1..Len(args.Outputs) : tx.TxOut[i] = args.Outputs[i]
        /\ Len(tx.TxOut) <= Len(args.Outputs) + 1
        /\ pc = "fund" => tx.TxOut = args.Outputs
        /\ amt = SumOfValues(args.Outputs, Len(args.Outputs))
        /\ Succeeded => ret = tx

C19_Witness ==
    /\ Succeeded
    /\ Len(args.Outputs) = 2
    /\ args.Outputs[1].Value # args.Outputs[2].Value
    /\ Len(ret.TxOut) = 3
    /\ ret.TxOut[3].PkScript # PayeeScript

(***************************************************************************)
(* C13: Connection() called while the connection is disconnected fails     *)
(* loudly and never yields a null handle; hence an operation forwarded to  *)
(* the RPC client before Start or after Stop fails instead of working on a *)
(* null handle.                                                            *)
(***************************************************************************)
AllFacadeOps == NodeOps \cup WalletOps

C13_NoNullHandle ==
    /\ ~isConnected => ~Connection.ok
    /\ Connection.ok => Connection.handle # NoClient
    /\ nodeCall \in AllFacadeOps =>
          /\ nodeOutcome = "ok" => (usedHandle # NoClient /\ isConnected)
          /\ ~isConnected => nodeOutcome = "malfunction"

C13_Witness ==
    /\ nodeCall = "GetNewAddress"
    /\ nodeOutcome = "malfunction"
    /\ launches >= 1
    /\ handles >= 1
    /\ ~running
    /\ ~isConnected

(***************************************************************************)
(* C17: Start launches the process, waits for the cert file and only then  *)
(* connects: Connect is never attempted before the launch, and whenever    *)
(* Start returns normally the process is running and the connection is     *)
(* Connected.                                                              *)
(***************************************************************************)
C17_StartEndsConnected ==
    /\ nodePc \in {"start_connect", "start_connecting"} =>
          (running /\ launches >= 1 /\ certFile)
    /\ (nodeCall = "Start" /\ nodeOutcome = "ok") =>
          (running /\ isConnected /\ rpcClient # NoClient)

(***************************************************************************)
(* C18: Stop of a running component disconnects the RPC client, if         *)
(* connected, before it stops the process, and deletes the cert and key    *)
(* files afterwards; once Stop has returned the process is not running and *)
(* the connection is Disconnected, so that Start and Stop can be repeated. *)
(***************************************************************************)
C18_StopOrder ==
    /\ nodePc = "stop_process" => (running /\ ~isConnected)
    /\ nodePc = "stop_delete" => (~running /\ ~isConnected)
    /\ (nodeCall = "Stop" /\ nodeOutcome = "ok") =>
          /\ ~running
          /\ ~isConnected
          /\ rpcClient = NoClient
          /\ liveHandles = {}
          /\ ~certFile
          /\ ~keyFile
          /\ nodePc = "idle"
          /\ connPc = "idle"

C18_StopSteps ==
    /\ (nodePc # "idle" /\ nodeCall = "Stop" /\ running /\ ~running') =>
          ~isConnected
    /\ ((certFile /\ ~certFile') \/ (keyFile /\ ~keyFile')) =>
          (~running /\ ~isConnected /\ ~certFile' /\ ~keyFile')

C18_StopDisconnectsThenStops == []C18_StopOrder /\ [][C18_StopSteps]_vars

C18_Witness ==
    /\ nodeCall = "Stop"
    /\ nodeOutcome = "ok"
    /\ launches = 2
    /\ handles = 2
    /\ ~running
    /\ ~isConnected

(***************************************************************************)
(* C20: Start on a component whose process is running reports a test-setup *)
(* malfunction and neither launches nor connects; Stop on one whose        *)
(* process is not running reports a malfunction and neither disconnects,   *)
(* stops nor deletes; Dispose stops the component if it is running and     *)
(* otherwise does nothing and returns nil.                                 *)
(***************************************************************************)
C20_Untouched ==
    /\ nodePc' = "idle"
    /\ UNCHANGED <<running, launches, certFile, keyFile>>
    /\ UNCHANGED connVars

C20_Guards ==
    nodePc = "idle" =>
        /\ nodeCall' = "Start" =>
              IF running
              THEN nodeOutcome' = "malfunction" /\ C20_Untouched
              ELSE launches' = launches + 1 /\ running'
        /\ nodeCall' = "Stop" =>
              IF running
              THEN nodePc' = "stop_process" /\ ~isConnected'
              ELSE nodeOutcome' = "malfunction" /\ C20_Untouched
        /\ nodeCall' = "Dispose" =>
              IF running
              THEN nodePc' = "stop_process" /\ ~isConnected'
              ELSE nodeOutcome' = "ok" /\ C20_Untouched

C20_DisposeStops ==
    (nodeCall = "Dispose" /\ nodeOutcome = "ok") => ~running

C20_LifecycleGuards == []C20_DisposeStops /\ [][C20_Guards]_vars

C20_Witness ==
    /\ nodeCall = "Start"
    /\ nodeOutcome = "malfunction"
    /\ nodePc = "idle"
    /\ running
    /\ isConnected
    /\ launches = 1
    /\ handles = 1

C20_WitnessStop ==
    /\ nodeCall = "Stop"
    /\ nodeOutcome = "malfunction"
    /\ ~running
    /\ isConnected
    /\ certFile

C20_WitnessDispose ==
    /\ nodeCall = "Dispose"
    /\ nodeOutcome = "ok"
    /\ launches = 0

(***************************************************************************)
(* C16: Sync(desiredHeight) blocks until the wallet is synced up to        *)
(* desiredHeight: it returns only after it observed a synced height of at  *)
(* least desiredHeight, returns a value of at least desiredHeight, and     *)
(* terminates once the height of the wallet has reached desiredHeight.     *)
(***************************************************************************)
C16_ReturnsSynced ==
    /\ syncPc \in {"return", "done"} =>
          (observed # NotRead /\ observed >= desiredHeight)
    /\ syncPc = "done" => syncRet >= desiredHeight
    /\ syncPc = "sleep" => observed < desiredHeight

C21_StoppedMeansDisconnected == ~running => ~isConnected

\* The step of Start that invokes Connect.
C21_ConnectOnlyWhenDisconnected ==
    (nodePc = "start_connect" /\ nodePc' = "start_connecting") => ~isConnected

C21_NeverConnectedTwice ==
    []C21_StoppedMeansDisconnected /\ [][C21_ConnectOnlyWhenDisconnected]_vars

\* The first half alone: Start never invokes Connect on a live connection.
C21_ConnectReachedConnected ==
    [][C21_ConnectOnlyWhenDisconnected]_vars

(***************************************************************************)
(* Previous outpoints.  The input built by fundTx is the literal            *)
(* OutPoint{Tree: output.Tree}: the fields it does not name keep their      *)
(* zero values.  A listed output is identified by its own outpoint; two     *)
(* positions of the list are two outputs, so the position stands for the    *)
(* transaction hash and is never the zero hash.                             *)
(***************************************************************************)
ZeroHash == 0

OutPointOf(in) ==
    [Hash |-> ZeroHash, Index |-> 0, Tree |-> in.PreviousOutPoint.Tree]

UnspentOutPoint(i) == [Hash |-> i, Index |-> 0, Tree |-> unspent[i].Tree]

(***************************************************************************)
(* C22: every input appended by fundTx carries the value of the output it  *)
(* was selected from and that output's full previous outpoint (hash and    *)
(* index as well as the tree), so that inputs selected from distinct       *)
(* outputs reference distinct outpoints.                                   *)
(***************************************************************************)
C22_CarriesValue ==
    \A j \in DOMAIN picked : tx.TxIn[j].ValueIn = unspent[picked[j]].Amount

C22_CarriesOutPoint ==
    \A j \in DOMAIN picked :
        OutPointOf(tx.TxIn[j]) = UnspentOutPoint(picked[j])

C22_DistinctOutPoints ==
    \A j, k \in DOMAIN picked :
        j # k => OutPointOf(tx.TxIn[j]) # OutPointOf(tx.TxIn[k])

C22_InputsReferenceOutpoints ==
    /\ Len(tx.TxIn) = Len(picked)
    /\ C22_CarriesValue
    /\ C22_CarriesOutPoint
    /\ C22_DistinctOutPoints

====
